---- MODULE Spec2Model ----
(***************************************************************************)
(* A model of the leptos_query cache client: the type-erased cache of     *)
(* query_client.rs (use_cache, get_state, fetch_query, prefetch_query,    *)
(* invalidate_query, invalidate_queries, use_cache_option) together with  *)
(* the per-entry state machine, the executor and the synchronizer that    *)
(* query_client.rs imports from query_executor / query (create_executor,  *)
(* synchronize_state, Query::new, Query::mark_invalid).                    *)
(***************************************************************************)
EXTENDS Integers, Sequences, FiniteSets, TLC

\* ---------------------------------------------------------------- bounds
NumKeys == 2
NumConsumers == 2
MaxTime == 1
MaxEpoch == 3
MaxGen == 2
MaxKeysLen == 2

\* cache_time of use_post_query (app.rs), in units of 5 seconds
CacheTime == 2

\* stale_time of use_post_query (app.rs), in units of 5 seconds
StaleTime == 1

Keys == 1..NumKeys
Consumers == 1..NumConsumers
KeyTypes == {"PostId"}
ValueTypes == {"String", "U32"}

NoKey == 0
NoTime == -1
NoTimer == -1
NoDuration == 0
NoData == [key |-> 0, n |-> 0]
EmptyMap == [x \in {} |-> x]

VARIABLES cache, created, consumers, fetches, now, fatal, ret, borrow

vars == <<cache, created, consumers, fetches, now, fatal, ret, borrow>>

\* ------------------------------------------------------- the entry (Query)

\* Query::new(key): a fresh entry, never fetched, no observer, no options.
NewQuery(g) ==
    [gen |-> g, status |-> "Created", data |-> NoData, updated_at |-> NoTime,
     observers |-> 0, cache_time |-> NoDuration, timer |-> NoTimer, epoch |-> 0]

Present(c, kt, k) == kt \in DOMAIN c /\ k \in DOMAIN c[kt].map

InFlight(e) == e.status \in {"Loading", "Fetching"}

\* faulty variant: Invalid is built from the data alone, the time of the last
\* load is not carried over
MarkInvalidNoTime(e) ==
    IF e.status \in {"Loaded", "Fetching", "Invalid"}
    THEN [e EXCEPT !.status = "Invalid", !.updated_at = NoTime]
    ELSE e

\* Query::mark_invalid: Loaded/Fetching/Invalid -> Invalid, data retained;
\* an entry without data has no Invalid form and is left as it is.
MarkInvalid(e) ==
    IF e.status \in {"Loaded", "Fetching", "Invalid"}
    THEN [e EXCEPT !.status = "Invalid"]
    ELSE e

\* faulty variant: stale from the age stale_time on, not only beyond it
IsStaleAtAge(e, t) == e.updated_at # NoTime /\ t - e.updated_at >= StaleTime

\* is_stale, derived at read time: the entry has an updated_at and it is older
\* than stale_time
IsStale(e, t) == e.updated_at # NoTime /\ t - e.updated_at > StaleTime

\* ------------------------------------------------------------ the cache

\* TypeId::of::<K>(): the identifier of a typed store is taken from the key
\* type alone.
TypeIdOf(kt, vt) == kt

\* faulty variant: insert in place of or_insert_with, an existing store is replaced
WithStoreReset(c, kt, vt) ==
    [x \in DOMAIN c \cup {TypeIdOf(kt, vt)} |->
        IF x = TypeIdOf(kt, vt) THEN [vt |-> vt, map |-> EmptyMap] ELSE c[x]]

\* use_cache: cache.entry(TypeId::of::<K>()).or_insert_with(empty store)
WithStore(c, kt, vt) ==
    IF TypeIdOf(kt, vt) \in DOMAIN c
    THEN c
    ELSE c @@ (TypeIdOf(kt, vt) :> [vt |-> vt, map |-> EmptyMap])

\* downcast_ref::<CacheEntry<K, V>>() on the box found under TypeId::of::<K>()
Downcasts(c, kt, vt) == c[TypeIdOf(kt, vt)].vt = vt

\* use_cache: .expect("Query Cache Type Mismatch.")
UseCachePanics(c, kt, vt) ==
    TypeIdOf(kt, vt) \in DOMAIN c /\ ~Downcasts(c, kt, vt)

\* faulty variant: the Vacant arm is taken for an occupied key too, so every caller
\* gets an entry of its own
GetStateFresh(c, cr, kt, vt, k) ==
    LET c1 == IF TypeIdOf(kt, vt) \in DOMAIN c
              THEN c
              ELSE c @@ (TypeIdOf(kt, vt) :> [vt |-> vt, map |-> EmptyMap])
        tid == TypeIdOf(kt, vt)
        m == c1[tid].map
    IN  [cache |-> [c1 EXCEPT ![tid].map =
                       [x \in DOMAIN m \cup {k} |->
                           IF x = k THEN NewQuery(cr[k] + 1) ELSE m[x]]],
         created |-> [cr EXCEPT ![k] = @ + 1],
         new |-> TRUE]

\* get_state's closure under use_cache: cache.entry(key), Occupied returns the
\* entry, Vacant inserts Query::new(key). new is the bool of the result.
GetState(c, cr, kt, vt, k) ==
    LET c1 == WithStore(c, kt, vt)
        tid == TypeIdOf(kt, vt)
        m == c1[tid].map
    IN  IF k \in DOMAIN m
        THEN [cache |-> c1, created |-> cr, new |-> FALSE]
        ELSE [cache |-> [c1 EXCEPT ![tid].map = m @@ (k :> NewQuery(cr[k] + 1))],
              created |-> [cr EXCEPT ![k] = @ + 1],
              new |-> TRUE]

\* get_state can run: no panic, and a new instance is within the bound
CanGetState(c, cr, kt, vt, k) ==
    /\ ~UseCachePanics(c, kt, vt)
    /\ (Present(c, TypeIdOf(kt, vt), k) \/ cr[k] < MaxGen)

\* use_cache_option: Some(func(store)) when the store exists and downcasts
HasStore(c, kt, vt) ==
    TypeIdOf(kt, vt) \in DOMAIN c /\ Downcasts(c, kt, vt)

\* ---------------------------------------------------------- the executor

\* create_executor's closure: reads the status; a fetch in flight is a no-op,
\* otherwise Created -> Loading or Loaded/Invalid -> Fetching under a new
\* epoch, and the fetch function is invoked with the entry's key.
Execute(c, fs, kt, k) ==
    LET e == c[kt].map[k]
        ep == e.epoch + 1
        st == IF e.status = "Created" THEN "Loading" ELSE "Fetching"
    IN  IF InFlight(e)
        THEN [cache |-> c, fetches |-> fs]
        ELSE [cache |-> [c EXCEPT ![kt].map[k] = [e EXCEPT !.status = st, !.epoch = ep]],
              fetches |-> fs \cup {[key |-> k, gen |-> e.gen, epoch |-> ep]}]

CanExecute(c, kt, k) ==
    InFlight(c[kt].map[k]) \/ c[kt].map[k].epoch < MaxEpoch

\* the completion corresponds to the still-current epoch of the same entry
Current(c, f) ==
    /\ Present(c, "PostId", f.key)
    /\ c["PostId"].map[f.key].gen = f.gen
    /\ c["PostId"].map[f.key].epoch = f.epoch

\* faulty variant: the epoch of the completion is not compared
ApplyResultAnyEpoch(c, f, t) ==
    IF /\ Present(c, "PostId", f.key)
       /\ c["PostId"].map[f.key].gen = f.gen
       /\ InFlight(c["PostId"].map[f.key])
    THEN [c EXCEPT !["PostId"].map[f.key] =
              [@ EXCEPT !.status = "Loaded",
                        !.data = [key |-> f.key, n |-> f.epoch],
                        !.updated_at = t]]
    ELSE c

\* faulty variant: the status of the entry is not read on completion
ApplyResultAnyStatus(c, f, t) ==
    IF Current(c, f)
    THEN [c EXCEPT !["PostId"].map[f.key] =
              [@ EXCEPT !.status = "Loaded",
                        !.data = [key |-> f.key, n |-> f.epoch],
                        !.updated_at = t]]
    ELSE c

\* on completion: Loading/Fetching -> Loaded{result, now}, only for the
\* current epoch; any other completion is discarded
ApplyResult(c, f, t) ==
    IF Current(c, f) /\ InFlight(c["PostId"].map[f.key])
    THEN [c EXCEPT !["PostId"].map[f.key] =
              [@ EXCEPT !.status = "Loaded",
                        !.data = [key |-> f.key, n |-> f.epoch],
                        !.updated_at = t]]
    ELSE c

\* ------------------------------------------------------ the synchronizer

\* faulty variant: a shorter cache_time than the one configured
SetOptionsShort(e) == [e EXCEPT !.cache_time = CacheTime - 1]

\* QueryOptions of use_post_query applied to the observed entry
SetOptions(e) == [e EXCEPT !.cache_time = CacheTime]

\* a consumer subscribes: count up, eviction timer disarmed
AddObserver(e) == [e EXCEPT !.observers = @ + 1, !.timer = NoTimer]

\* one-shot eviction timer, armed when the count reaches zero and cache_time
\* is set; timer holds the time of arming
Arm(e, t) ==
    IF e.observers = 0 /\ e.cache_time # NoDuration
    THEN [e EXCEPT !.timer = t]
    ELSE e

\* a consumer leaves: count down, timer armed at zero
RemoveObserver(e, t) == Arm([e EXCEPT !.observers = @ - 1], t)

TimerDue(e, t) == e.timer # NoTimer /\ t - e.timer >= e.cache_time

\* on firing: evict provided the entry is still unobserved
Evictable(e) == e.observers = 0

Evict(c, kt, k) ==
    [c EXCEPT ![kt].map = [x \in DOMAIN c[kt].map \ {k} |-> c[kt].map[x]]]

NoRet == [op |-> "none", vt |-> "", keys |-> <<>>, some |-> FALSE, list |-> <<>>]

Idle == [key |-> NoKey, dirty |-> FALSE]

\* the RefCell borrows of the cache map and of a typed store: not held, no
\* key of a running invalidation left to visit, no consumer notified
NoBorrow == [held |-> FALSE, pos |-> 0, notified |-> {}]

Init ==
    /\ cache = EmptyMap
    /\ created = [k \in Keys |-> 0]
    /\ consumers = [c \in Consumers |-> Idle]
    /\ fetches = {}
    /\ now = 0
    /\ fatal = FALSE
    /\ ret = NoRet
    /\ borrow = NoBorrow

\* expect() fails: the program is aborted and nothing of it is left
Panic ==
    /\ fatal' = TRUE
    /\ cache' = EmptyMap
    /\ created' = [k \in Keys |-> 0]
    /\ consumers' = [c \in Consumers |-> Idle]
    /\ fetches' = {}
    /\ now' = 0
    /\ ret' = NoRet
    /\ borrow' = NoBorrow

\* the store a subscribed consumer reads is the one it subscribed through
StoreVt(c) == c["PostId"].vt

\* ------------------------------------------------------------- operations

\* faulty variant: fetch_query without its call of synchronize_state
FetchQueryNoSync(c, vt, k, iso) ==
    /\ ~fatal
    /\ consumers[c].key = NoKey
    /\ IF UseCachePanics(cache, "PostId", vt)
       THEN Panic
       ELSE /\ CanGetState(cache, created, "PostId", vt, k)
            /\ LET g == GetState(cache, created, "PostId", vt, k)
                   x == IF iso
                        THEN Execute(g.cache, fetches, "PostId", k)
                        ELSE [cache |-> g.cache, fetches |-> fetches]
               IN  /\ iso => CanExecute(g.cache, "PostId", k)
                   /\ cache' = [x.cache EXCEPT !["PostId"].map[k] = SetOptions(@)]
                   /\ created' = g.created
                   /\ fetches' = x.fetches
                   /\ consumers' = [consumers EXCEPT ![c] =
                                        [key |-> k, dirty |-> ~iso]]
            /\ ret' = NoRet
            /\ UNCHANGED <<borrow, now, fatal>>

\* fetch_query (through use_post_query): get_state, the sync effect (run at
\* once when isomorphic, queued otherwise), synchronize_state.
FetchQuery(c, vt, k, iso) ==
    /\ ~fatal
    /\ consumers[c].key = NoKey
    /\ IF UseCachePanics(cache, "PostId", vt)
       THEN Panic
       ELSE /\ CanGetState(cache, created, "PostId", vt, k)
            /\ LET g == GetState(cache, created, "PostId", vt, k)
                   x == IF iso
                        THEN Execute(g.cache, fetches, "PostId", k)
                        ELSE [cache |-> g.cache, fetches |-> fetches]
               IN  /\ iso => CanExecute(g.cache, "PostId", k)
                   /\ cache' = [x.cache EXCEPT !["PostId"].map[k] =
                                    AddObserver(SetOptions(@))]
                   /\ created' = g.created
                   /\ fetches' = x.fetches
                   /\ consumers' = [consumers EXCEPT ![c] =
                                        [key |-> k, dirty |-> ~iso]]
            /\ ret' = NoRet
            /\ UNCHANGED <<borrow, now, fatal>>

\* the queued sync effect of a consumer runs: state.get(), executor()
RunEffect(c) ==
    /\ ~fatal
    /\ consumers[c].dirty
    /\ LET k == consumers[c].key
           g == GetState(cache, created, "PostId", StoreVt(cache), k)
           x == Execute(g.cache, fetches, "PostId", k)
       IN  /\ CanExecute(g.cache, "PostId", k)
           /\ cache' = x.cache
           /\ created' = g.created
           /\ fetches' = x.fetches
    /\ consumers' = [consumers EXCEPT ![c].dirty = FALSE]
    /\ ret' = NoRet
    /\ UNCHANGED <<borrow, now, fatal>>

\* faulty variant: the key is read once, the entry is not derived again when it changes
SetKeyStale(c, k2) ==
    /\ ~fatal
    /\ consumers[c].key # NoKey
    /\ consumers[c].key # k2
    /\ consumers' = [consumers EXCEPT ![c] = [key |-> k2, dirty |-> TRUE]]
    /\ ret' = NoRet
    /\ UNCHANGED <<borrow, cache, created, fetches, now, fatal>>

\* faulty variant: on a key change the subscription to the old entry is not
\* torn down
SetKeyKeep(c, k2) ==
    /\ ~fatal
    /\ consumers[c].key # NoKey
    /\ consumers[c].key # k2
    /\ CanGetState(cache, created, "PostId", StoreVt(cache), k2)
    /\ LET g == GetState(cache, created, "PostId", StoreVt(cache), k2)
       IN  /\ cache' = [g.cache EXCEPT !["PostId"].map[k2] =
                            AddObserver(SetOptions(@))]
           /\ created' = g.created
    /\ consumers' = [consumers EXCEPT ![c] = [key |-> k2, dirty |-> TRUE]]
    /\ ret' = NoRet
    /\ UNCHANGED <<borrow, fetches, now, fatal>>

\* the reactive key of a consumer changes: its observation moves from the old
\* entry to the entry of the new key, and the sync effect is queued.
SetKey(c, k2) ==
    /\ ~fatal
    /\ consumers[c].key # NoKey
    /\ consumers[c].key # k2
    /\ LET k1 == consumers[c].key
           left == [cache EXCEPT !["PostId"].map[k1] = RemoveObserver(@, now)]
       IN  /\ CanGetState(left, created, "PostId", StoreVt(cache), k2)
           /\ LET g == GetState(left, created, "PostId", StoreVt(cache), k2)
              IN  /\ cache' = [g.cache EXCEPT !["PostId"].map[k2] =
                                   AddObserver(SetOptions(@))]
                  /\ created' = g.created
    /\ consumers' = [consumers EXCEPT ![c] = [key |-> k2, dirty |-> TRUE]]
    /\ ret' = NoRet
    /\ UNCHANGED <<borrow, fetches, now, fatal>>

\* a consumer is torn down
Teardown(c) ==
    /\ ~fatal
    /\ consumers[c].key # NoKey
    /\ cache' = [cache EXCEPT !["PostId"].map[consumers[c].key] =
                     RemoveObserver(@, now)]
    /\ consumers' = [consumers EXCEPT ![c] = Idle]
    /\ ret' = NoRet
    /\ UNCHANGED <<borrow, created, fetches, now, fatal>>

\* faulty variant: the refetch trigger starts the fetch function itself, past
\* the guard of the executor
RefetchForce(c) ==
    /\ ~fatal
    /\ consumers[c].key # NoKey
    /\ cache["PostId"].map[consumers[c].key].epoch < MaxEpoch
    /\ LET k == consumers[c].key
           e == cache["PostId"].map[k]
           st == IF e.status \in {"Created", "Loading"} THEN "Loading" ELSE "Fetching"
       IN  /\ cache' = [cache EXCEPT !["PostId"].map[k] =
                            [e EXCEPT !.status = st, !.epoch = e.epoch + 1]]
           /\ fetches' = fetches \cup
                             {[key |-> k, gen |-> e.gen, epoch |-> e.epoch + 1]}
    /\ ret' = NoRet
    /\ UNCHANGED <<borrow, created, consumers, now, fatal>>

\* QueryResult::refetch: the executor of the consumer is run
Refetch(c) ==
    /\ ~fatal
    /\ consumers[c].key # NoKey
    /\ CanExecute(cache, "PostId", consumers[c].key)
    /\ LET x == Execute(cache, fetches, "PostId", consumers[c].key)
       IN  /\ cache' = x.cache
           /\ fetches' = x.fetches
    /\ ret' = NoRet
    /\ UNCHANGED <<borrow, created, consumers, now, fatal>>

\* synchronize_state: an observer reads an entry marked Invalid and its
\* executor is run
SyncInvalid(c) ==
    /\ ~fatal
    /\ consumers[c].key # NoKey
    /\ cache["PostId"].map[consumers[c].key].status = "Invalid"
    /\ CanExecute(cache, "PostId", consumers[c].key)
    /\ LET x == Execute(cache, fetches, "PostId", consumers[c].key)
       IN  /\ cache' = x.cache
           /\ fetches' = x.fetches
    /\ ret' = NoRet
    /\ UNCHANGED <<borrow, created, consumers, now, fatal>>

\* faulty variant: prefetch_query applies the options of use_post_query to the entry,
\* still without synchronize_state
PrefetchQueryWithOptions(vt, k) ==
    /\ ~fatal
    /\ IF UseCachePanics(cache, "PostId", vt)
       THEN Panic
       ELSE /\ CanGetState(cache, created, "PostId", vt, k)
            /\ LET g == GetState(cache, created, "PostId", vt, k)
                   x == Execute(g.cache, fetches, "PostId", k)
               IN  /\ CanExecute(g.cache, "PostId", k)
                   /\ cache' = [x.cache EXCEPT !["PostId"].map[k] = SetOptions(@)]
                   /\ created' = g.created
                   /\ fetches' = x.fetches
            /\ ret' = NoRet
            /\ UNCHANGED <<borrow, consumers, now, fatal>>

\* faulty variant: prefetch_query inserts Query::new(key) whether or not the
\* key has an entry
PrefetchQueryInsert(vt, k) ==
    /\ ~fatal
    /\ IF UseCachePanics(cache, "PostId", vt)
       THEN Panic
       ELSE /\ created[k] < MaxGen
            /\ LET g == GetStateFresh(cache, created, "PostId", vt, k)
                   x == Execute(g.cache, fetches, "PostId", k)
               IN  /\ cache' = x.cache
                   /\ created' = g.created
                   /\ fetches' = x.fetches
            /\ ret' = NoRet
            /\ UNCHANGED <<borrow, consumers, now, fatal>>

\* prefetch_query: get_state and the effect (state.get(), executor()), no
\* synchronize_state. The signals are lazy, so the call touches the cache
\* only when its effect runs: the step is the run of the effect.
PrefetchQuery(vt, k) ==
    /\ ~fatal
    /\ IF UseCachePanics(cache, "PostId", vt)
       THEN Panic
       ELSE /\ CanGetState(cache, created, "PostId", vt, k)
            /\ LET g == GetState(cache, created, "PostId", vt, k)
                   x == Execute(g.cache, fetches, "PostId", k)
               IN  /\ CanExecute(g.cache, "PostId", k)
                   /\ cache' = x.cache
                   /\ created' = g.created
                   /\ fetches' = x.fetches
            /\ ret' = NoRet
            /\ UNCHANGED <<borrow, consumers, now, fatal>>

\* the fetch function of an invocation completes
FetchComplete(f) ==
    /\ ~fatal
    /\ f \in fetches
    /\ cache' = ApplyResult(cache, f, now)
    /\ fetches' = fetches \ {f}
    /\ ret' = NoRet
    /\ UNCHANGED <<borrow, created, consumers, now, fatal>>

\* invalidate_query: use_cache_option(|cache| cache.get(key).map(mark_invalid))
\* .is_some()
InvalidateQueryResult(c, vt, k) ==
    HasStore(c, "PostId", vt) /\ k \in DOMAIN c[TypeIdOf("PostId", vt)].map

\* the entries of S that exist are handed to mark_invalid
MarkAll(c, kt, S) ==
    [c EXCEPT ![kt].map =
        [x \in DOMAIN c[kt].map |->
            IF x \in S THEN MarkInvalid(c[kt].map[x]) ELSE c[kt].map[x]]]

InvalidateQueryCall(vt, k) ==
    /\ ~fatal
    /\ cache' = IF InvalidateQueryResult(cache, vt, k)
                THEN MarkAll(cache, "PostId", {k})
                ELSE cache
    /\ UNCHANGED <<borrow, created, consumers, fetches, now, fatal>>

\* HomePage's invalidate_one: the result of the call is dropped
InvalidateOne(k) ==
    /\ InvalidateQueryCall("String", k)
    /\ ret' = NoRet

InvalidateQuery(vt, k) ==
    /\ InvalidateQueryCall(vt, k)
    /\ ret' = [op |-> "invalidate_query", vt |-> vt, keys |-> <<k>>,
               some |-> InvalidateQueryResult(cache, vt, k), list |-> <<>>]

\* invalidate_queries: keys.filter(|key| cache.get(key) marks and keeps).collect()
InvalidatedKeys(c, vt, ks) ==
    SelectSeq(ks, LAMBDA k : k \in DOMAIN c[TypeIdOf("PostId", vt)].map)

Range(sq) == {sq[i] : i \in DOMAIN sq}

\* faulty variant: invalidate_queries reaches the store through use_cache's
\* or_insert_with, which creates a missing store
InvalidateQueriesViaUseCache(vt, ks) ==
    /\ ~fatal
    /\ IF UseCachePanics(cache, "PostId", vt)
       THEN /\ cache' = cache
            /\ ret' = [op |-> "invalidate_queries", vt |-> vt, keys |-> ks,
                       some |-> FALSE, list |-> <<>>]
       ELSE /\ cache' = MarkAll(WithStore(cache, "PostId", vt), "PostId", Range(ks))
            /\ ret' = [op |-> "invalidate_queries", vt |-> vt, keys |-> ks,
                       some |-> TRUE,
                       list |-> InvalidatedKeys(WithStore(cache, "PostId", vt), vt, ks)]
    /\ UNCHANGED <<borrow, created, consumers, fetches, now, fatal>>

InvalidateQueries(vt, ks) ==
    /\ ~fatal
    /\ IF HasStore(cache, "PostId", vt)
       THEN /\ cache' = MarkAll(cache, "PostId", Range(ks))
            /\ ret' = [op |-> "invalidate_queries", vt |-> vt, keys |-> ks,
                       some |-> TRUE, list |-> InvalidatedKeys(cache, vt, ks)]
       ELSE /\ cache' = cache
            /\ ret' = [op |-> "invalidate_queries", vt |-> vt, keys |-> ks,
                       some |-> FALSE, list |-> <<>>]
    /\ UNCHANGED <<borrow, created, consumers, fetches, now, fatal>>

\* invalidate_queries, entered: self.cache.borrow() and, when the store is
\* there and downcasts, cache.borrow(); both borrows are held over the filter.
\* Without a store the call returns None at once.
InvalidateBegin(ks) ==
    /\ ~fatal
    /\ ~borrow.held
    /\ IF HasStore(cache, "PostId", "String")
       THEN /\ borrow' = [borrow EXCEPT !.held = TRUE, !.pos = 1]
            /\ ret' = [op |-> "invalidate_queries", vt |-> "String", keys |-> ks,
                       some |-> TRUE, list |-> <<>>]
       ELSE /\ borrow' = borrow
            /\ ret' = [op |-> "invalidate_queries", vt |-> "String", keys |-> ks,
                       some |-> FALSE, list |-> <<>>]
    /\ UNCHANGED <<cache, created, consumers, fetches, now, fatal>>

\* mark_invalid writes the status signal of an entry that holds data
WritesStatus(e) == e.status \in {"Loaded", "Fetching", "Invalid"}

\* the consumers whose signals read the status of the entry of k
\* (fetch_query's data signal: state.get().state.get())
Subscribers(k) == {c \in Consumers : consumers[c].key = k}

\* one turn of the filter closure: cache.get(key), state.mark_invalid(), with
\* the borrows held; the write of the status signal notifies the subscribers
MarkNext ==
    /\ ~fatal
    /\ borrow.held
    /\ borrow.pos <= Len(ret.keys)
    /\ LET k == ret.keys[borrow.pos]
           present == k \in DOMAIN cache["PostId"].map
       IN  /\ cache' = IF present THEN MarkAll(cache, "PostId", {k}) ELSE cache
           /\ ret' = [ret EXCEPT !.list = IF present THEN Append(@, k) ELSE @]
           /\ borrow' = [borrow EXCEPT
                            !.pos = @ + 1,
                            !.notified =
                                IF present /\ WritesStatus(cache["PostId"].map[k])
                                THEN @ \cup Subscribers(k)
                                ELSE @]
    /\ UNCHANGED <<created, consumers, fetches, now, fatal>>

\* collect() is done: return Some(invalidated), the borrows are dropped
InvalidateEnd ==
    /\ ~fatal
    /\ borrow.held
    /\ borrow.pos > Len(ret.keys)
    /\ borrow' = [borrow EXCEPT !.held = FALSE, !.pos = 0]
    /\ UNCHANGED <<cache, created, consumers, fetches, now, fatal, ret>>

\* a notified consumer's signal is evaluated again: state.get() goes through
\* get_state and use_cache, whose client.cache.borrow_mut() panics while the
\* borrows of an invalidation are held; otherwise the entry is read and, being
\* Invalid, fetched again. The reactive runtime decides when this runs: at the
\* write of the signal or later, so both are possible.
Rerun(c) ==
    /\ ~fatal
    /\ c \in borrow.notified
    /\ IF borrow.held
       THEN Panic
       ELSE /\ LET k == consumers[c].key
                   x == IF cache["PostId"].map[k].status = "Invalid"
                        THEN Execute(cache, fetches, "PostId", k)
                        ELSE [cache |-> cache, fetches |-> fetches]
               IN  /\ CanExecute(cache, "PostId", k)
                   /\ cache' = x.cache
                   /\ fetches' = x.fetches
            /\ borrow' = [borrow EXCEPT !.notified = @ \ {c}]
            /\ ret' = NoRet
            /\ UNCHANGED <<created, consumers, now, fatal>>

\* the eviction timer of an entry fires
TimerFire(k) ==
    /\ ~fatal
    /\ Present(cache, "PostId", k)
    /\ TimerDue(cache["PostId"].map[k], now)
    /\ cache' = IF Evictable(cache["PostId"].map[k])
                THEN Evict(cache, "PostId", k)
                ELSE [cache EXCEPT !["PostId"].map[k].timer = NoTimer]
    /\ ret' = NoRet
    /\ UNCHANGED <<borrow, created, consumers, fetches, now, fatal>>

\* time passes
Tick(limit) ==
    /\ ~fatal
    /\ now < limit
    /\ now' = now + 1
    /\ ret' = NoRet
    /\ UNCHANGED <<borrow, cache, created, consumers, fetches, fatal>>

KeySeqs == UNION {[1..n -> Keys] : n \in 0..MaxKeysLen}

\* the time an eviction armed at time 0 takes to come due
EvictHorizon == CacheTime

\* consumers, prefetches, invalidations and completions, across MaxTime
Next ==
    \/ \E c \in Consumers, k \in Keys, iso \in BOOLEAN :
           FetchQuery(c, "String", k, iso)
    \/ \E c \in Consumers : RunEffect(c)
    \/ \E c \in Consumers, k \in Keys : SetKey(c, k)
    \/ \E c \in Consumers : Teardown(c)
    \/ \E c \in Consumers : Refetch(c)
    \/ \E c \in Consumers : SyncInvalid(c)
    \/ \E vt \in ValueTypes, k \in Keys : PrefetchQuery(vt, k)
    \/ \E f \in fetches : FetchComplete(f)
    \/ \E k \in Keys : InvalidateOne(k)
    \/ Tick(MaxTime)

Spec == Init /\ [][Next]_vars

\* the life of entries: subscription, teardown, timers and eviction
NextEvict ==
    \/ \E c \in Consumers, k \in Keys, iso \in BOOLEAN :
           FetchQuery(c, "String", k, iso)
    \/ \E c \in Consumers : RunEffect(c)
    \/ \E c \in Consumers, k \in Keys : SetKey(c, k)
    \/ \E c \in Consumers : Teardown(c)
    \/ \E k \in Keys : PrefetchQuery("String", k)
    \/ \E f \in fetches : FetchComplete(f)
    \/ \E k \in Keys : TimerFire(k)
    \/ Tick(EvictHorizon)

SpecEvict == Init /\ [][NextEvict]_vars

\* time passes and the timer service runs a callback that is due
FairEvict ==
    /\ SpecEvict
    /\ WF_vars(Tick(EvictHorizon))
    /\ \A k \in Keys : WF_vars(TimerFire(k))

\* the calls of the client that return what they invalidated
NextInv ==
    \/ \E k \in Keys, iso \in BOOLEAN : FetchQuery(1, "String", k, iso)
    \/ RunEffect(1)
    \/ Refetch(1)
    \/ \E vt \in ValueTypes, k \in Keys : PrefetchQuery(vt, k)
    \/ \E f \in fetches : FetchComplete(f)
    \/ \E vt \in ValueTypes, k \in Keys : InvalidateQuery(vt, k)
    \/ \E vt \in ValueTypes, ks \in KeySeqs : InvalidateQueries(vt, ks)

SpecInv == Init /\ [][NextInv]_vars

\* invalidate_queries step by step, with the borrows it holds; between its
\* steps only the notified consumers can run
NextBorrow ==
    \/ \E c \in Consumers, k \in Keys, iso \in BOOLEAN :
           ~borrow.held /\ FetchQuery(c, "String", k, iso)
    \/ \E c \in Consumers : ~borrow.held /\ RunEffect(c)
    \/ \E f \in fetches : ~borrow.held /\ FetchComplete(f)
    \/ \E ks \in KeySeqs : InvalidateBegin(ks)
    \/ MarkNext
    \/ InvalidateEnd
    \/ \E c \in Consumers : Rerun(c)

SpecBorrow == Init /\ [][NextBorrow]_vars

\* ------------------------------------------------------------ properties

Has(k) == Present(cache, "PostId", k)
Ent(k) == cache["PostId"].map[k]

\* the same in the state after the step
HasN(k) == Present(cache', "PostId", k)
EntN(k) == cache'["PostId"].map[k]

\* the invocations of the fetch function in flight for the entry of k
FetchesOf(k) == {f \in fetches : f.key = k /\ Has(k) /\ f.gen = Ent(k).gen}

\* those of them that no later invocation has superseded
CurrentFetchesOf(k) == {f \in FetchesOf(k) : f.epoch = Ent(k).epoch}

C1_State ==
    /\ \A f \in fetches :
           Has(f.key) /\ f.gen = Ent(f.key).gen /\ f.epoch <= Ent(f.key).epoch
    /\ \A k \in Keys : Has(k) =>
           /\ Cardinality(CurrentFetchesOf(k)) <= 1
           /\ InFlight(Ent(k)) => Cardinality(CurrentFetchesOf(k)) = 1
           /\ Ent(k).status = "Loading" =>
                  Ent(k).epoch = 1 /\ Cardinality(FetchesOf(k)) = 1

C1_Step ==
    \A k \in Keys :
        (/\ Has(k)
         /\ CurrentFetchesOf(k) # {}
         /\ ~(FetchesOf(k)' \subseteq FetchesOf(k)))
            => Ent(k).status = "Invalid"

Completes(f) == f \in fetches /\ f \notin fetches' /\ ~fatal'

\* an invocation of the entry of k that a later one has superseded
Superseded(f) == f \in FetchesOf(f.key) /\ f.epoch < Ent(f.key).epoch

C3_State ==
    \A k \in Keys : Has(k) =>
        /\ Ent(k).data.n <= Ent(k).epoch
        /\ Ent(k).status = "Loaded" => Ent(k).data.n = Ent(k).epoch

C3_Step ==
    \A f \in fetches : (Completes(f) /\ Superseded(f)) => cache' = cache

\* C3: the completion of a superseded invocation changes no entry (status,
\* data and updated_at stay as the later invocation left them), and a Loaded
\* entry always carries the result of the invocation triggered last.
C3_StaleDiscard == C3_State /\ [][C3_State' /\ C3_Step]_vars

\* the later of two invocations has completed, the earlier is still running
C3_Witness ==
    \E k \in Keys :
        /\ Has(k)
        /\ Ent(k).status = "Loaded"
        /\ Ent(k).data.n = Ent(k).epoch
        /\ \E f \in fetches : Superseded(f) /\ f.key = k

C4_State ==
    \A k \in Keys : Has(k) => Ent(k).data \in {NoData, [key |-> k, n |-> Ent(k).data.n]}

\* a key change of consumer c: it observes the entry of its new key, and the
\* entry it left keeps status, data, updated_at and epoch
C4_Switch ==
    \A c \in Consumers :
        (consumers[c].key # NoKey /\ consumers'[c].key # NoKey
            /\ consumers'[c].key # consumers[c].key)
        => /\ HasN(consumers'[c].key)
           /\ EntN(consumers'[c].key).observers >= 1
           /\ HasN(consumers[c].key)
           /\ EntN(consumers[c].key).status = Ent(consumers[c].key).status
           /\ EntN(consumers[c].key).data = Ent(consumers[c].key).data
           /\ EntN(consumers[c].key).updated_at = Ent(consumers[c].key).updated_at
           /\ EntN(consumers[c].key).epoch = Ent(consumers[c].key).epoch
           /\ fetches' = fetches

\* a completion writes to the entry its invocation was started for and to no
\* other, whether or not a consumer still observes that entry
C4_Completion ==
    \A f \in fetches : Completes(f) =>
        /\ \A k \in Keys \ {f.key} : Has(k) => Has(k)' /\ Ent(k)' = Ent(k)
        /\ (Current(cache, f) /\ InFlight(Ent(f.key))) =>
               /\ Ent(f.key)'.status = "Loaded"
               /\ Ent(f.key)'.data = [key |-> f.key, n |-> f.epoch]

\* C4: when the key of a consumer changes from A to B the consumer observes
\* B's entry (created if absent) and entry A is left as it was; the
\* completion of A's fetch makes A Loaded with A's data and changes no other
\* entry; no entry ever holds data fetched for another key.
C4_SwitchMap == C4_State /\ [][C4_State' /\ C4_Switch /\ C4_Completion]_vars

\* A's fetch completed on A with no observer left on A, the consumers being on B
C4_Witness ==
    /\ Has(1) /\ Has(2)
    /\ Ent(1).status = "Loaded"
    /\ Ent(1).data = [key |-> 1, n |-> 1]
    /\ Ent(1).observers = 0
    /\ Ent(2).data = NoData
    /\ consumers[1].key = 2
    /\ consumers[2].key = NoKey

\* a step that marks the entry of k Invalid
Invalidates(k) ==
    Has(k) /\ Has(k)' /\ Ent(k).status # "Invalid" /\ Ent(k)'.status = "Invalid"

C6_Step ==
    \A k \in Keys :
        /\ Invalidates(k) =>
               /\ fetches' = fetches
               /\ Ent(k).data # NoData
               /\ Ent(k)'.data = Ent(k).data
               /\ Ent(k)'.updated_at = Ent(k).updated_at
               /\ Ent(k)'.epoch = Ent(k).epoch
        /\ (Has(k) /\ Has(k)' /\ Ent(k).status = "Invalid") =>
               /\ Ent(k)'.status \in {"Invalid", "Fetching"}
               /\ Ent(k)'.status = "Fetching" =>
                      /\ Ent(k)'.epoch = Ent(k).epoch + 1
                      /\ fetches' = fetches \cup
                             {[key |-> k, gen |-> Ent(k).gen, epoch |-> Ent(k).epoch + 1]}
        /\ (Has(k) /\ Has(k)' /\ Ent(k).status \in {"Invalid", "Fetching"}
               /\ Ent(k)'.status \in {"Invalid", "Fetching"}) =>
               /\ Ent(k)'.data = Ent(k).data
               /\ Ent(k)'.updated_at = Ent(k).updated_at
        /\ \A f \in CurrentFetchesOf(k) :
               (Completes(f) /\ Ent(k).status = "Fetching") =>
                   /\ Ent(k)'.status = "Loaded"
                   /\ Ent(k)'.data = [key |-> k, n |-> f.epoch]
                   /\ Ent(k)'.updated_at >= Ent(k).updated_at
                   /\ Ent(k)'.updated_at = now

GetNow(vt, k) == GetState(cache, created, "PostId", vt, k)

C2_State ==
    /\ \A k \in Keys : Has(k) => Ent(k).gen = created[k]
    /\ \A vt \in ValueTypes, k \in Keys :
           ~UseCachePanics(cache, "PostId", vt) =>
               IF Has(k)
               THEN /\ GetNow(vt, k).cache = cache
                    /\ GetNow(vt, k).created = created
                    /\ ~GetNow(vt, k).new
               ELSE /\ GetNow(vt, k).new
                    /\ GetNow(vt, k).cache["PostId"].vt = vt
                    /\ DOMAIN GetNow(vt, k).cache["PostId"].map =
                           {k} \cup {x \in Keys : Has(x)}
                    /\ GetNow(vt, k).cache["PostId"].map[k] = NewQuery(created[k] + 1)
                    /\ \A x \in Keys : Has(x) =>
                           GetNow(vt, k).cache["PostId"].map[x] = Ent(x)

C2_Step ==
    \A k \in Keys :
        /\ (Has(k) /\ HasN(k)) => EntN(k).gen = Ent(k).gen
        /\ (~Has(k) /\ HasN(k)) =>
               /\ EntN(k).gen = created[k] + 1
               /\ created'[k] = created[k] + 1
               /\ EntN(k).data = NoData
               /\ EntN(k).updated_at = NoTime
               /\ EntN(k).status \in {"Created", "Loading"}
        /\ created'[k] # created[k] => ~Has(k) /\ HasN(k)

Unobserved(k) == \A c \in Consumers : consumers[c].key # k

\* the entry of k is removed by the step
Removed(k) == Has(k) /\ (~HasN(k) \/ EntN(k).gen # Ent(k).gen)

\* the entry of k waits for its eviction, armed early enough to come due
Waiting(k, g) ==
    /\ Has(k)
    /\ Ent(k).gen = g
    /\ Ent(k).observers = 0
    /\ Ent(k).cache_time # NoDuration
    /\ Ent(k).timer # NoTimer
    /\ Ent(k).timer + Ent(k).cache_time <= EvictHorizon

Gone(k, g) == ~Has(k) \/ Ent(k).gen # g \/ Ent(k).observers > 0

C8_Step ==
    \A k \in Keys :
        /\ Removed(k) =>
               /\ ~HasN(k)
               /\ Ent(k).timer # NoTimer
               /\ now - Ent(k).timer >= CacheTime
        /\ (~Has(k) /\ HasN(k)) =>
               /\ EntN(k).gen = created[k] + 1
               /\ EntN(k).data = NoData
               /\ EntN(k).updated_at = NoTime
               /\ EntN(k).epoch <= 1
               /\ EntN(k).status = (IF EntN(k).epoch = 0 THEN "Created" ELSE "Loading")

C8_Live ==
    \A k \in Keys, g \in 1..MaxGen : Waiting(k, g) ~> Gone(k, g)

\* C8: an unobserved entry with cache_time set whose timer can come due within
\* the horizon is eventually removed unless it gains an observer; a removal
\* happens only once cache_time has passed since the timer was armed; the
\* entry a later get-or-create makes for the key is a new instance in Created
\* (Loading when the creating call ran its executor at once), without data.
C8_EvictionLive == C8_Live /\ [][C8_Step]_vars

\* the key was evicted with its data and created again
C8_Witness ==
    \E k \in Keys :
        /\ created[k] = 2
        /\ Has(k)
        /\ Ent(k).gen = 2
        /\ Ent(k).status = "Created"
        /\ now >= CacheTime

C9_Step ==
    \A k \in Keys :
        /\ Removed(k) =>
               /\ Ent(k).observers = 0
               /\ Unobserved(k)
               /\ Ent(k).cache_time # NoDuration
        /\ (Has(k) /\ HasN(k) /\ EntN(k).observers > Ent(k).observers) =>
               /\ EntN(k).gen = Ent(k).gen
               /\ EntN(k).data = Ent(k).data
               /\ EntN(k).updated_at = Ent(k).updated_at
               /\ EntN(k).timer = NoTimer
        /\ (Has(k) /\ Ent(k).observers > 0) => HasN(k)

\* C9: an entry is removed only when its observer_count is zero, no consumer
\* observes it and its cache_time is set; an entry that gains an observer
\* stays the same instance with the same data and updated_at and its timer is
\* disarmed, and no step removes an entry whose count is positive.
C9_EvictionSafe == [][C9_Step]_vars

\* an entry regained an observer after its timer was armed and outlived the
\* time at which that timer was due, with the data it had
C9_Witness ==
    \E k \in Keys :
        /\ Has(k)
        /\ Ent(k).gen = 1
        /\ Ent(k).observers = 1
        /\ Ent(k).timer = NoTimer
        /\ Ent(k).status = "Loaded"
        /\ Ent(k).updated_at = 0
        /\ Ent(k).epoch = 1
        /\ now = EvictHorizon
        /\ \E k2 \in Keys \ {k} : created[k2] = 1 /\ ~Has(k2)

\* C10: for every entry in the store the eviction timer is armed exactly when
\* observer_count is zero and cache_time is set.
C10_TimerArmed ==
    \A k \in Keys : Has(k) =>
        (Ent(k).timer # NoTimer <=>
            (Ent(k).observers = 0 /\ Ent(k).cache_time # NoDuration))

\* an entry made by prefetch_query alone, without timer, beside an entry whose
\* consumers left and whose timer is armed
C10_Witness ==
    \E k \in Keys, k2 \in Keys :
        /\ Has(k) /\ Has(k2)
        /\ Ent(k).observers = 0
        /\ Ent(k).cache_time = NoDuration
        /\ Ent(k).timer = NoTimer
        /\ Ent(k2).observers = 0
        /\ Ent(k2).cache_time = CacheTime
        /\ Ent(k2).timer # NoTimer

\* an entry for k exists in the typed store of (PostId, vt)
HasTyped(vt, k) ==
    /\ "PostId" \in DOMAIN cache
    /\ cache["PostId"].vt = vt
    /\ k \in DOMAIN cache["PostId"].map

\* C5 as stated: invalidate_query returns true exactly when the entry exists in
\* the store of that key/value type; when it returns true the entry is Invalid
\* afterwards with the data and updated_at it had, whatever its status was;
\* when it returns false nothing changed.
C5_InvalidateQuery ==
    [][ret'.op = "invalidate_query" =>
          /\ ret'.some <=> HasTyped(ret'.vt, ret'.keys[1])
          /\ ret'.some =>
                 /\ EntN(ret'.keys[1]).status = "Invalid"
                 /\ EntN(ret'.keys[1]).data = Ent(ret'.keys[1]).data
                 /\ EntN(ret'.keys[1]).updated_at = Ent(ret'.keys[1]).updated_at
          /\ ~ret'.some => cache' = cache]_vars

\* the keys of ks that have an entry in the typed store of (PostId, vt)
PresentKeys(vt, ks) == SelectSeq(ks, LAMBDA k : HasTyped(vt, k))

\* C7 as stated: invalidate_queries returns the input keys that have an entry,
\* in input order and with repetitions, and each of those entries is Invalid
\* afterwards; absent keys are left out.
C7_InvalidateQueries ==
    [][ret'.op = "invalidate_queries" =>
          /\ ret'.list = PresentKeys(ret'.vt, ret'.keys)
          /\ \A i \in DOMAIN ret'.list : EntN(ret'.list[i]).status = "Invalid"]_vars

\* the live consumers subscribed to the entry of k
Observing(k) == {c \in Consumers : consumers[c].key = k}

C11_State ==
    /\ \A c \in Consumers : consumers[c].key # NoKey => Has(consumers[c].key)
    /\ \A k \in Keys : Has(k) =>
           /\ Ent(k).observers >= 0
           /\ Ent(k).observers = Cardinality(Observing(k))

C11_Step ==
    \A k \in Keys :
        /\ (Has(k) /\ HasN(k) /\ EntN(k).gen = Ent(k).gen) =>
               /\ EntN(k).observers - Ent(k).observers =
                      Cardinality(Observing(k)') - Cardinality(Observing(k))
               /\ EntN(k).observers - Ent(k).observers \in {-1, 0, 1}
        /\ (~Has(k) /\ HasN(k)) =>
               /\ EntN(k).observers = Cardinality(Observing(k)')
               /\ EntN(k).observers <= 1

\* C11: observer_count of every entry is never negative and equals the number
\* of live consumers subscribed to it; a step changes it by one, up exactly
\* when a consumer starts observing the entry and down exactly when a consumer
\* is torn down or its key moves to another entry.
C11_ObserverCount == C11_State /\ [][C11_State' /\ C11_Step]_vars

\* an entry created again after an eviction is observed by both consumers
C11_Witness ==
    \E k \in Keys :
        /\ Has(k)
        /\ Ent(k).gen = 2
        /\ Ent(k).observers = 2
        /\ Observing(k) = Consumers

C12_State ==
    \A k \in Keys : Has(k) =>
        /\ Ent(k).updated_at <= now
        /\ Ent(k).updated_at = NoTime <=> Ent(k).data = NoData

C12_Step ==
    \A k \in Keys :
        /\ (/\ Has(k) /\ HasN(k)
            /\ EntN(k).gen = Ent(k).gen
            /\ EntN(k).updated_at # Ent(k).updated_at) =>
               /\ \E f \in fetches \ fetches' :
                      f.key = k /\ Current(cache, f) /\ InFlight(Ent(k))
               /\ EntN(k).status = "Loaded"
               /\ EntN(k).updated_at = now
               /\ EntN(k).updated_at > Ent(k).updated_at
        /\ (~Has(k) /\ HasN(k)) => EntN(k).updated_at = NoTime

\* C12: updated_at of an entry changes only in a step that applies the
\* completion of its current fetch, to the time of the completion, and never
\* decreases; a new entry has none; fetch start, invalidate, refetch request
\* and observer changes leave it as it is.
C12_UpdatedAt == C12_State /\ [][C12_State' /\ C12_Step]_vars

\* an observed entry loaded twice, the second time at time 1, then invalidated
C12_Witness ==
    \E k \in Keys :
        /\ Has(k)
        /\ Ent(k).status = "Invalid"
        /\ Ent(k).updated_at = 1
        /\ Ent(k).data = [key |-> k, n |-> 2]
        /\ Ent(k).observers > 0

\* C13 as stated: the typed stores are addressed by (key type, value type), so
\* a get-or-create for (PostId, vt) succeeds whatever other value type was
\* used with PostId before, and leaves an entry for the key in the store of
\* (PostId, vt).
C13_SeparateStores ==
    [][\A vt \in ValueTypes, k \in Keys :
           PrefetchQuery(vt, k) =>
               /\ ~fatal'
               /\ HasStore(cache', "PostId", vt)
               /\ k \in DOMAIN cache'[TypeIdOf("PostId", vt)].map]_vars

\* C14 as stated: every operation that meets a store of another value type
\* under the type identifier ends in the fatal error, the invalidations
\* included.
C14_MismatchFatal ==
    [][\A vt \in ValueTypes :
           UseCachePanics(cache, "PostId", vt) =>
               /\ \A k \in Keys :
                      (\/ PrefetchQuery(vt, k)
                       \/ \E iso \in BOOLEAN : FetchQuery(1, vt, k, iso)
                       \/ InvalidateQuery(vt, k)) => fatal'
               /\ \A ks \in KeySeqs : InvalidateQueries(vt, ks) => fatal']_vars

\* consumer c starts observing k in the step (fetch_query)
Subscribes(c, k) == consumers[c].key = NoKey /\ consumers'[c].key = k

\* the entry of k was made by prefetch_query alone: no consumer ever observed it
OnlyPrefetched(k) ==
    Has(k) /\ Ent(k).observers = 0 /\ Ent(k).cache_time = NoDuration

\* C15 as stated: prefetch_query on an absent key creates the entry and starts
\* its one fetch (Loading); a fetch_query for a prefetched entry that is Loaded
\* and not stale starts no fetch and shows the prefetched data, and one for a
\* prefetched entry whose fetch is in flight starts no second fetch.
C15_PrefetchWarms ==
    [][\A k \in Keys :
           /\ (PrefetchQuery("String", k) /\ ~fatal' /\ ~Has(k)) =>
                  /\ HasN(k)
                  /\ EntN(k).status = "Loading"
                  /\ Cardinality(fetches' \ fetches) = 1
           /\ \A c \in Consumers :
                  (OnlyPrefetched(k) /\ Subscribes(c, k)) =>
                      /\ (Ent(k).status = "Loaded" /\ ~IsStale(Ent(k), now)) =>
                             /\ fetches' = fetches
                             /\ EntN(k).status = "Loaded"
                             /\ EntN(k).data = Ent(k).data
                      /\ InFlight(Ent(k)) => fetches' = fetches]_vars

C16_State ==
    \A k \in Keys : Has(k) =>
        /\ IsStale(Ent(k), now) <=>
               (Ent(k).updated_at # NoTime /\ now - Ent(k).updated_at > StaleTime)
        /\ Ent(k).status \in {"Created", "Loading"} => ~IsStale(Ent(k), now)

C16_Step ==
    \A k \in Keys :
        (Has(k) /\ HasN(k)) =>
            /\ (~IsStale(Ent(k), now) /\ IsStale(EntN(k), now')) =>
                   now' # now /\ EntN(k) = Ent(k)
            /\ (/\ IsStale(Ent(k), now)
                /\ (EntN(k).data # Ent(k).data \/ ~IsStale(EntN(k), now'))) =>
                   /\ \E f \in fetches \ fetches' : f.key = k /\ Current(cache, f)
                   /\ Ent(k).status = "Fetching"
                   /\ EntN(k).status = "Loaded"
                   /\ EntN(k).updated_at = now
            /\ (/\ IsStale(Ent(k), now)
                /\ Ent(k).status = "Loaded"
                /\ EntN(k).status # "Loaded") =>
                   /\ EntN(k).status = "Fetching"
                   /\ EntN(k).data = Ent(k).data
                   /\ EntN(k).updated_at = Ent(k).updated_at

C17_State ==
    \A c \in Consumers :
        (/\ ~fatal
         /\ consumers[c].key # NoKey
         /\ Ent(consumers[c].key).status = "Loaded"
         /\ Ent(consumers[c].key).epoch < MaxEpoch) => ENABLED Refetch(c)

C17_Step ==
    /\ \A c \in Consumers :
           Refetch(c) =>
               /\ (/\ Ent(consumers[c].key).status = "Loaded"
                   /\ ~IsStale(Ent(consumers[c].key), now)) =>
                      /\ EntN(consumers[c].key).status = "Fetching"
                      /\ EntN(consumers[c].key).data = Ent(consumers[c].key).data
                      /\ EntN(consumers[c].key).updated_at =
                             Ent(consumers[c].key).updated_at
                      /\ fetches \subseteq fetches'
                      /\ Cardinality(fetches' \ fetches) = 1
                      /\ \A f \in fetches' \ fetches :
                             /\ f.key = consumers[c].key
                             /\ f.epoch = EntN(consumers[c].key).epoch
               /\ InFlight(Ent(consumers[c].key)) =>
                      /\ cache' = cache
                      /\ fetches' = fetches
    /\ \A f \in fetches :
           (/\ FetchComplete(f)
            /\ Current(cache, f)
            /\ Ent(f.key).status = "Fetching") =>
               /\ EntN(f.key).status = "Loaded"
               /\ EntN(f.key).data = [key |-> f.key, n |-> f.epoch]
               /\ EntN(f.key).updated_at = now

Transitions ==
    {<<"Created", "Loading">>, <<"Loading", "Loaded">>,
     <<"Loaded", "Fetching">>, <<"Fetching", "Loaded">>,
     <<"Loaded", "Invalid">>, <<"Fetching", "Invalid">>,
     <<"Invalid", "Fetching">>}

C19_State ==
    \A k \in Keys : Has(k) =>
        /\ Ent(k).status \in {"Created", "Loading", "Loaded", "Fetching", "Invalid"}
        /\ Ent(k).status \in {"Created", "Loading"} <=> Ent(k).data = NoData

C19_Step ==
    \A k \in Keys :
        /\ (Has(k) /\ HasN(k)) =>
               /\ EntN(k).status # Ent(k).status =>
                      <<Ent(k).status, EntN(k).status>> \in Transitions
               /\ Ent(k).data # NoData =>
                      /\ EntN(k).status \notin {"Created", "Loading"}
                      /\ EntN(k).data # NoData
               /\ EntN(k).data # Ent(k).data =>
                      /\ InFlight(Ent(k))
                      /\ EntN(k).status = "Loaded"
        /\ (~Has(k) /\ HasN(k)) => EntN(k).status \in {"Created", "Loading"}

InvalidationFrame(vt, S) ==
    /\ DOMAIN cache' = DOMAIN cache
    /\ \A tid \in DOMAIN cache :
           /\ cache'[tid].vt = cache[tid].vt
           /\ DOMAIN cache'[tid].map = DOMAIN cache[tid].map
           /\ \A x \in DOMAIN cache[tid].map :
                  IF x \in S /\ HasStore(cache, "PostId", vt)
                  THEN cache'[tid].map[x] =
                           [cache[tid].map[x] EXCEPT !.status = cache'[tid].map[x].status]
                  ELSE cache'[tid].map[x] = cache[tid].map[x]
    /\ "PostId" \notin DOMAIN cache =>
           /\ cache' = cache
           /\ ~ret'.some
           /\ ret'.list = <<>>
    /\ UNCHANGED <<borrow, created, consumers, fetches, now, fatal>>

\* C20: invalidate_query and invalidate_queries create and remove no typed
\* store and no entry, change the status of no entry other than those whose
\* keys were passed and are present, and change nothing but status; when no
\* store exists for the key type they report nothing invalidated (false,
\* nothing) and leave the cache as it was.
C20_InvalidationFrame ==
    [][\A vt \in ValueTypes :
           /\ \A k \in Keys : InvalidateQuery(vt, k) => InvalidationFrame(vt, {k})
           /\ \A ks \in KeySeqs :
                  InvalidateQueries(vt, ks) => InvalidationFrame(vt, Range(ks))]_vars

\* invalidate_queries([1]) beside a Loaded entry of key 2: key 1 is Invalid,
\* key 2 is as it was
C20_Witness ==
    /\ ret.op = "invalidate_queries"
    /\ ret.keys = <<1>>
    /\ ret.list = <<1>>
    /\ Has(1) /\ Has(2)
    /\ Ent(1).status = "Invalid"
    /\ Ent(2).status = "Loaded"

\* C18 as stated: no step taken while the borrows of the cache are held
\* notifies an observer, and no observer's get-or-create runs before the
\* borrows are released.
C18_NoReentrantAccess ==
    [][/\ borrow.held => borrow'.notified \subseteq borrow.notified
       /\ \A c \in Consumers : Rerun(c) => ~borrow.held]_vars

====
